---- MODULE Spec2Model ----
(***************************************************************************)
(* aws-in-a-box: the process entry point (flag handling, Kinesis bootstrap,*)
(* the method registry and the HTTP front-end handler) and the S3 store    *)
(* (buckets, objects behind pointers, multipart uploads, one mutex).       *)
(*                                                                         *)
(* Three families of specifications share the variables:                   *)
(*   SpecMain   - main(): startup, then the front-end handler per request  *)
(*   Spec       - the S3 operations, one call at a time                    *)
(*   SpecConc   - the S3 operations called by concurrent goroutines, each  *)
(*                call split at its Lock, its reads, its writes and its    *)
(*                deferred Unlock; FairConc adds the scheduler's fairness  *)
(***************************************************************************)
EXTENDS Integers, Sequences, FiniteSets, TLC

VARIABLES
    \* ---- main() ----
    mainPc,                         \* position of main()
    enableKinesis,                  \* flag -enableKinesis
    enableKMS,                      \* flag -enableKMS
    kinesisInitialStreams,          \* flag -kinesisInitialStreams (a string: a sequence of characters)
    kinesisInitialShardsPerStream,  \* flag -kinesisInitialShardsPerStream
    createStreamCalls,              \* the k.CreateStream calls made so far, in order
    methodRegistry,                 \* map[string]http.HandlerFunc
    request,                        \* the request the front-end handler served last
    response,                       \* the response it produced
    invocations                     \* the registered handlers invoked for that request

mainVars == <<mainPc, enableKinesis, enableKMS, kinesisInitialStreams,
              kinesisInitialShardsPerStream, createStreamCalls, methodRegistry,
              request, response, invocations>>

VARIABLES
    buckets,           \* s.buckets: bucket name -> (key -> *Object)
    heap,              \* the Objects behind the pointers: address -> Object
    multipartUploads,  \* s.multipartUploads: upload id -> multipartUpload
    uuids,             \* how many upload ids uuid.NewV4 has produced
    held,              \* per caller: the *Object its last GetObject returned, with
                       \* the Object as it was when the call returned
    mu,                \* s.mu: 0 when unlocked, else the goroutine holding it
    pcS3,              \* per goroutine: its position in the S3 call it runs
    call,              \* per goroutine: the operation it runs and its input
    pending,           \* per goroutine: what its call has computed and not yet written
    returned,          \* per goroutine: the error of the last call it finished
    serial,            \* the store and the errors returned, had every call run alone,
                       \* in the order of their Lock
    budget,            \* calls still to be started
    history            \* the multipart calls that succeeded, in order, with their outputs

storeVars == <<buckets, heap, multipartUploads, uuids>>

concVars == <<mu, pcS3, call, pending, returned, serial>>

s3Vars == <<storeVars, held, concVars, budget, history>>

vars == <<mainVars, s3Vars>>

-----------------------------------------------------------------------------
(* Bounds of the model *)

\* longest -kinesisInitialStreams value tried
MaxFlagLen == 2

\* the characters a -kinesisInitialStreams value is drawn from
FlagChars == {"a", ","}

\* number of S3 calls one behaviour makes
MaxCalls == 3

\* number of multipart uploads one behaviour creates
MaxUploads == 2

\* number of successful multipart calls one behaviour of the multipart
\* specification makes
MaxUploadCalls == 4

\* the goroutines calling the store
Procs == {1, 2}

\* a caller that holds no object
NoObject == [ptr |-> 0, seen |-> <<>>]

\* no call computed
NoCall == [op |-> "", input |-> <<>>]

\* New(addr): empty maps, the mutex unlocked, no call running
InitS3 ==
    /\ buckets = <<>>
    /\ heap = <<>>
    /\ multipartUploads = <<>>
    /\ uuids = 0
    /\ held = [p \in Procs |-> NoObject]
    /\ mu = 0
    /\ pcS3 = [p \in Procs |-> "idle"]
    /\ call = [p \in Procs |-> NoCall]
    /\ pending = [p \in Procs |-> <<>>]
    /\ returned = [p \in Procs |-> ""]
    /\ serial = [st  |-> [buckets |-> <<>>, heap |-> <<>>, multipartUploads |-> <<>>,
                          uuids |-> 0],
                 err |-> [p \in Procs |-> ""]]
    /\ budget = MaxCalls
    /\ history = <<>>

-----------------------------------------------------------------------------
(* Strings as sequences of characters *)

RECURSIVE StringsUpTo(_)
StringsUpTo(n) ==
    IF n = 0 THEN {<<>>}
    ELSE LET shorter == StringsUpTo(n - 1)
         IN  shorter \cup {Append(s, c) : s \in {t \in shorter : Len(t) = n - 1}, c \in FlagChars}

\* strings.Split(s, sep) for a one-character separator: the pieces between
\* separators; a string without separator, the empty one included, is one piece
RECURSIVE Split(_, _)
Split(s, sep) ==
    IF \A i \in 1..Len(s) : s[i] # sep THEN <<s>>
    ELSE LET i == CHOOSE j \in 1..Len(s) :
                      s[j] = sep /\ \A k \in 1..(j - 1) : s[k] # sep
         IN  <<SubSeq(s, 1, i - 1)>> \o Split(SubSeq(s, i + 1, Len(s)), sep)

-----------------------------------------------------------------------------
(* The method registry *)

service == "Kinesis_20131202"

kmsService == "TrentService"

\* http.Register: the handler is stored under "<service>.<method>"
Register(registry, svc, method) ==
    LET key == svc \o "." \o method
    IN  [k \in DOMAIN registry \cup {key} |->
            IF k = key THEN [service |-> svc, method |-> method] ELSE registry[k]]

RECURSIVE RegisterAll(_, _, _)
RegisterAll(registry, svc, methods) ==
    IF methods = <<>> THEN registry
    ELSE RegisterAll(Register(registry, svc, Head(methods)), svc, Tail(methods))

\* the methods Kinesis.RegisterHTTPHandlers registers, in order
KinesisRegistered ==
    <<"CreateStream", "PutRecord", "ListShards", "GetShardIterator", "GetRecords">>

KinesisRegisterHTTPHandlers(registry) == RegisterAll(registry, service, KinesisRegistered)

\* the KMS operations (kms.RegisterHTTPHandlers)
KMSOperations ==
    <<"CreateKey", "DescribeKey", "ListKeys", "ListAliases", "CreateAlias",
      "UpdateAlias", "DeleteAlias", "EnableKey", "DisableKey",
      "ScheduleKeyDeletion", "CancelKeyDeletion", "EnableKeyRotation",
      "DisableKeyRotation", "GetKeyRotationStatus", "GenerateDataKey",
      "GenerateDataKeyWithoutPlaintext", "Encrypt", "Decrypt", "ReEncrypt",
      "GenerateRandom">>

KMSRegisterHTTPHandlers(registry) == RegisterAll(registry, kmsService, KMSOperations)

-----------------------------------------------------------------------------
(* Requests and responses *)

\* the body size the specification gives as the default maximum: 16 MiB
MaxBodyBytes == 16 * 1024 * 1024

\* A byte string of len bytes, each equal to fill
Bytes(len, fill) == [len |-> len, fill |-> fill]

BodyLens == {0, MaxBodyBytes, MaxBodyBytes + 1}

\* r.Body: a reader over data, pos bytes of it consumed; fails tells whether
\* reading it ends in an error (a broken connection) instead of EOF
Readers == [data : {Bytes(n, f) : n \in BodyLens, f \in {7}}, pos : {0}, fails : BOOLEAN]

\* io.ReadAll: everything from the reader's position to its end
ReadAll(reader) ==
    [buf  |-> Bytes(reader.data.len - reader.pos, reader.data.fill),
     err  |-> reader.fails,
     rest |-> [reader EXCEPT !.pos = reader.data.len]]

\* io.NopCloser(bytes.NewBuffer(buf)): a fresh reader at the start of buf
NewBuffer(buf) == [data |-> buf, pos |-> 0, fails |-> FALSE]

\* (mutant) the body is not republished: the handler is left with the consumed reader
RepublishSkipped(consumed, buf) == consumed

\* r.Body = io.NopCloser(bytes.NewBuffer(buf)): the request's body replaced by a
\* reader over what was read
Republish(consumed, buf) == NewBuffer(buf)

\* the fourteen Kinesis operations of the specification
KinesisOperations ==
    {"CreateStream", "DeleteStream", "DescribeStream", "ListShards",
     "IncreaseStreamRetentionPeriod", "DecreaseStreamRetentionPeriod",
     "PutRecord", "PutRecords", "GetShardIterator", "GetRecords", "SplitShard",
     "MergeShards", "StartStreamEncryption", "StopStreamEncryption"}

\* X-Amz-Target values tried
Targets ==
    {service \o "." \o op : op \in KinesisOperations}
    \cup {kmsService \o "." \o "Encrypt", "", "Kinesis_20131202.NoSuchOperation",
          "CreateStream"}

\* request headers: X-Amz-Target absent, or present with a value
HeaderSets == {<<>>} \cup {[n \in {"X-Amz-Target"} |-> t] : t \in Targets}

\* http.Header.Get: the value, "" when the header is absent
HeaderGet(headers, name) == IF name \in DOMAIN headers THEN headers[name] ELSE ""

Requests == [Header : HeaderSets, Body : Readers]

NoRequest == [Header |-> <<>>, Body |-> NewBuffer(Bytes(0, 0))]

\* the ResponseWriter before anything is written
NewResponse == [status |-> 0, header |-> {}, bodyLen |-> 0]

\* http.Error(w, msg, code): content headers, the status, the message as body
HttpError(w, code) ==
    [w EXCEPT !.status = code,
              !.header = @ \cup {"Content-Type", "X-Content-Type-Options"},
              !.bodyLen = 1]

\* w.Header().Add("x-amzn-RequestId", uuid)
AddRequestId(w) == [w EXCEPT !.header = @ \cup {"x-amzn-RequestId"}]

\* (mutant) the "NOT FOUND" line goes to the response instead of the log
WriteHeaderAndLine(w, code) == [w EXCEPT !.status = code, !.bodyLen = 1]

\* w.WriteHeader(code)
WriteHeader(w, code) == [w EXCEPT !.status = code]

\* the statuses a registered handler answers with (200, or an AWS error)
HandlerStatuses == {200, 400}

\* method(w, r): the registered handler reads r.Body and renders its answer
InvokeMethod(w, status) == [w EXCEPT !.status = status, !.bodyLen = 2]

-----------------------------------------------------------------------------
(* main() *)

InitMain ==
    /\ mainPc = "kinesis"
    /\ enableKinesis \in BOOLEAN
    /\ enableKMS \in BOOLEAN
    /\ kinesisInitialStreams \in StringsUpTo(MaxFlagLen)
    /\ kinesisInitialShardsPerStream \in {1, 2}
    /\ createStreamCalls = <<>>
    /\ methodRegistry = <<>>
    /\ request = NoRequest
    /\ response = NewResponse
    /\ invocations = <<>>

\* the names the bootstrap loop ranges over
InitialStreamNames == Split(kinesisInitialStreams, ",")

flagVars == <<enableKinesis, enableKMS, kinesisInitialStreams, kinesisInitialShardsPerStream>>

\* one iteration of the loop over strings.Split(*kinesisInitialStreams, ",")
KinesisCreateStream ==
    /\ mainPc = "kinesis"
    /\ enableKinesis
    /\ Len(createStreamCalls) < Len(InitialStreamNames)
    /\ createStreamCalls' = Append(createStreamCalls,
            [StreamName |-> InitialStreamNames[Len(createStreamCalls) + 1],
             ShardCount |-> kinesisInitialShardsPerStream,
             registered |-> DOMAIN methodRegistry])
    /\ UNCHANGED <<mainPc, flagVars, methodRegistry, request, response, invocations>>
    /\ UNCHANGED s3Vars

\* after the loop: k.RegisterHTTPHandlers(methodRegistry)
KinesisRegister ==
    /\ mainPc = "kinesis"
    /\ enableKinesis
    /\ Len(createStreamCalls) = Len(InitialStreamNames)
    /\ methodRegistry' = KinesisRegisterHTTPHandlers(methodRegistry)
    /\ mainPc' = "kms"
    /\ UNCHANGED <<flagVars, createStreamCalls, request, response, invocations>>
    /\ UNCHANGED s3Vars

KinesisDisabled ==
    /\ mainPc = "kinesis"
    /\ ~enableKinesis
    /\ mainPc' = "kms"
    /\ UNCHANGED <<flagVars, createStreamCalls, methodRegistry, request, response, invocations>>
    /\ UNCHANGED s3Vars

KMSRegister ==
    /\ mainPc = "kms"
    /\ enableKMS
    /\ methodRegistry' = KMSRegisterHTTPHandlers(methodRegistry)
    /\ mainPc' = "serving"
    /\ UNCHANGED <<flagVars, createStreamCalls, request, response, invocations>>
    /\ UNCHANGED s3Vars

KMSDisabled ==
    /\ mainPc = "kms"
    /\ ~enableKMS
    /\ mainPc' = "serving"
    /\ UNCHANGED <<flagVars, createStreamCalls, methodRegistry, request, response, invocations>>
    /\ UNCHANGED s3Vars

\* what the front-end handler does with request r: the response written and the
\* registered handlers invoked, each with what it sees (the body it can read, the
\* response headers already set)
handler(registry, r, status) ==
    LET read   == ReadAll(r.Body)
        body   == Republish(read.rest, read.buf)
        target == HeaderGet(r.Header, "X-Amz-Target")
        w      == AddRequestId(NewResponse)
    IN  IF read.err
        THEN [response |-> HttpError(NewResponse, 500), invocations |-> <<>>]
        ELSE IF target \notin DOMAIN registry
        THEN [response |-> WriteHeader(w, 404), invocations |-> <<>>]
        ELSE [response |-> InvokeMethod(w, status),
              invocations |-> <<[method |-> registry[target],
                                 body |-> ReadAll(body).buf,
                                 header |-> w.header]>>]

\* h1s.ListenAndServe: one request served
Serve ==
    /\ mainPc = "serving"
    /\ \E r \in Requests, status \in HandlerStatuses :
          LET served == handler(methodRegistry, r, status)
          IN  /\ request' = r
              /\ response' = served.response
              /\ invocations' = served.invocations
    /\ UNCHANGED <<mainPc, flagVars, createStreamCalls, methodRegistry>>
    /\ UNCHANGED s3Vars

NextMain ==
    \/ KinesisCreateStream
    \/ KinesisRegister
    \/ KinesisDisabled
    \/ KMSRegister
    \/ KMSDisabled
    \/ Serve

\* the process as main() finds it: the flags parsed, the store empty
InitServer == InitMain /\ InitS3

SpecMain == InitServer /\ [][NextMain]_vars

-----------------------------------------------------------------------------
(* Properties of main() and the front-end handler *)

\* a request has been served
Served == response.status # 0

Target == HeaderGet(request.Header, "X-Amz-Target")

\* C1: every response the front-end handler produces carries x-amzn-RequestId,
\* the 500 answer to an unreadable body included
C1_EveryResponseHasRequestId ==
    Served => "x-amzn-RequestId" \in response.header

\* C2 (as stated): a request whose X-Amz-Target is not a key of the registry is
\* answered 404 with an empty body and no registered handler is invoked
C2_UnregisteredIs404 ==
    (Served /\ Target \notin DOMAIN methodRegistry)
        => (response.status = 404 /\ response.bodyLen = 0 /\ invocations = <<>>)

\* C2 (amended): a request whose body is read without error and whose
\* X-Amz-Target is not a key of the registry is answered 404 with an empty body
\* and no registered handler is invoked
C2_UnregisteredReadableIs404 ==
    (Served /\ ~request.Body.fails /\ Target \notin DOMAIN methodRegistry)
        => (response.status = 404 /\ response.bodyLen = 0 /\ invocations = <<>>)

\* a Kinesis target of a server started with enableKinesis=false was answered 404
C2_Witness ==
    /\ Served
    /\ ~enableKinesis
    /\ ~request.Body.fails
    /\ Target = "Kinesis_20131202.PutRecord"
    /\ response.status = 404

\* C3: no handler receives a body longer than the maximum (16 MiB)
C3_NoOversizedBodyDispatched ==
    \A i \in DOMAIN invocations : invocations[i].body.len <= MaxBodyBytes

\* C7: with Kinesis enabled, a request for any of the fourteen Kinesis
\* operations is routed to a handler for that operation, not answered 404
C7_AllKinesisOperationsRouted ==
    \A op \in KinesisOperations :
        (Served /\ enableKinesis /\ ~request.Body.fails /\ Target = service \o "." \o op)
            => /\ response.status # 404
               /\ Len(invocations) = 1
               /\ invocations[1].method = [service |-> service, method |-> op]

\* the number of CreateStream calls made for a name
CallsFor(name) ==
    Cardinality({i \in DOMAIN createStreamCalls : createStreamCalls[i].StreamName = name})

\* C8: once the Kinesis bootstrap is over, CreateStream has been called exactly
\* once for each name of kinesisInitialStreams, with the configured shard count,
\* for no other name, always before any handler was registered, and not at all
\* for the empty default
C8_InitialStreamsCreatedOnce ==
    (enableKinesis /\ mainPc # "kinesis")
        => /\ \A i \in DOMAIN createStreamCalls :
                 /\ createStreamCalls[i].StreamName # <<>>
                 /\ createStreamCalls[i].ShardCount = kinesisInitialShardsPerStream
                 /\ createStreamCalls[i].registered = {}
                 /\ CallsFor(createStreamCalls[i].StreamName) = 1
           /\ \A i \in DOMAIN InitialStreamNames :
                 InitialStreamNames[i] # <<>> => CallsFor(InitialStreamNames[i]) = 1
           /\ kinesisInitialStreams = <<>> => createStreamCalls = <<>>

\* the one invocation C9 expects for the served request
ExpectedInvocation ==
    /\ Len(invocations) = 1
    /\ invocations[1].method = methodRegistry[Target]
    /\ invocations[1].method.service \o "." \o invocations[1].method.method = Target
    /\ invocations[1].body = request.Body.data
    /\ "x-amzn-RequestId" \in invocations[1].header

\* C9 (as stated): for a request whose X-Amz-Target is a registered key, the
\* handler registered under that key is invoked exactly once, after the body is
\* read and the request id set, with the body the front-end read
C9_RegisteredInvokedOnce ==
    (Served /\ Target \in DOMAIN methodRegistry) => ExpectedInvocation

\* C9 (amended): the same for a request whose body is read without error
C9_RegisteredReadableInvokedOnce ==
    (Served /\ ~request.Body.fails /\ Target \in DOMAIN methodRegistry) => ExpectedInvocation

\* a registered Kinesis handler was handed a non-empty body
C9_Witness ==
    /\ Served
    /\ Target = "Kinesis_20131202.GetRecords"
    /\ Len(invocations) = 1
    /\ invocations[1].body.len = MaxBodyBytes


-----------------------------------------------------------------------------
(***************************************************************************)
(* The S3 store.  Strings that the code parses (bucket names, keys, copy   *)
(* sources, taggings) are sequences of characters; a *Object is an address *)
(* of the heap, so that two keys can hold the same pointer.                *)
(***************************************************************************)


BucketNames == {<<"m">>, <<"n">>}

Keys == {<<"k">>, <<"j">>}

\* addresses: one per key of every bucket, one per caller's held pointer, one spare
Addrs == 1..(Cardinality(BucketNames) * Cardinality(Keys) + Cardinality(Procs) + 1)

\* the Go nil error
NilErr == "nil"

\* a nil pointer or output
Nil == 0

-----------------------------------------------------------------------------
(* Go maps *)

MapPut(m, k, v) == [x \in DOMAIN m \cup {k} |-> IF x = k THEN v ELSE m[x]]

MapDelete(m, k) == [x \in DOMAIN m \ {k} |-> m[x]]

-----------------------------------------------------------------------------
(* Digests *)

\* md5.Sum, scaled down to one byte: a digest of two hexadecimal digits, never
\* <<0, 0>> and different for different data of the model
RECURSIVE Fold(_)
Fold(data) ==
    IF data = <<>> THEN 1
    ELSE (Fold(SubSeq(data, 1, Len(data) - 1)) * 3 + data[Len(data)]) % 251

MD5Sum(data) == LET h == Fold(data) + 1 IN <<h \div 16, h % 16>>

\* the [16]byte zero value
ZeroMD5 == <<0, 0>>

HexDigits == <<"0", "1", "2", "3", "4", "5", "6", "7", "8", "9", "a", "b", "c", "d", "e", "f">>

\* hex.EncodeToString
HexEncode(bytes) == [i \in 1..Len(bytes) |-> HexDigits[bytes[i] + 1]]

\* etag(data)
etag(data) == HexEncode(MD5Sum(data))

-----------------------------------------------------------------------------
(* The store as a value *)

Store == [buckets |-> buckets, heap |-> heap,
          multipartUploads |-> multipartUploads, uuids |-> uuids]

\* what a call gives back: the store it leaves, its error, its output
Result(st, err, out) == [st |-> st, err |-> err, out |-> out]

\* &Object{...}: the object at a fresh address
Alloc(st, obj) ==
    LET addr == CHOOSE a \in Addrs \ DOMAIN st.heap :
                    \A b \in Addrs \ DOMAIN st.heap : a <= b
    IN  [st |-> [st EXCEPT !.heap = MapPut(@, addr, obj)], addr |-> addr]

\* the addresses some key of some bucket points to
Stored(st) ==
    UNION {{st.buckets[b][k] : k \in DOMAIN st.buckets[b]} : b \in DOMAIN st.buckets}

\* the garbage collector: an Object that no key and no caller points to is gone
Collect(st, roots) ==
    LET live == Stored(st) \cup roots
    IN  [st EXCEPT !.heap = [a \in DOMAIN st.heap \cap live |-> st.heap[a]]]


-----------------------------------------------------------------------------
(* String functions of the Go library *)

\* strings.SplitN(s, sep, n) for n > 0: at most n pieces, the last one unsplit
RECURSIVE SplitN(_, _, _)
SplitN(s, sep, n) ==
    IF n = 1 \/ \A i \in 1..Len(s) : s[i] # sep THEN <<s>>
    ELSE LET i == CHOOSE j \in 1..Len(s) :
                      s[j] = sep /\ \A k \in 1..(j - 1) : s[k] # sep
         IN  <<SubSeq(s, 1, i - 1)>> \o SplitN(SubSeq(s, i + 1, Len(s)), sep, n - 1)

IsHex(c) == \E i \in 1..16 : HexDigits[i] = c

\* the characters of the escapes the model knows
Unhex(hi, lo) == IF <<hi, lo>> = <<"2", "f">> THEN "/" ELSE "?"

RECURSIVE Unescape(_)
Unescape(s) ==
    IF s = <<>> THEN <<>>
    ELSE IF s[1] = "%" THEN <<Unhex(s[2], s[3])>> \o Unescape(SubSeq(s, 4, Len(s)))
    ELSE <<s[1]>> \o Unescape(Tail(s))

\* url.PathUnescape: an error for a % that two hexadecimal digits do not follow
PathUnescape(s) ==
    IF \E i \in 1..Len(s) :
          s[i] = "%" /\ ~(i + 2 <= Len(s) /\ IsHex(s[i + 1]) /\ IsHex(s[i + 2]))
    THEN [s |-> <<>>, err |-> TRUE]
    ELSE [s |-> Unescape(s), err |-> FALSE]

\* strconv.Itoa for n >= 0
RECURSIVE Itoa(_)
Itoa(n) == IF n < 10 THEN <<HexDigits[n + 1]>> ELSE Itoa(n \div 10) \o <<HexDigits[(n % 10) + 1]>>

-----------------------------------------------------------------------------
(* The operations of the store: each maps the store and an input to a Result *)

CreateBucket(st, input) ==
    IF input.Bucket \in DOMAIN st.buckets
    THEN Result(st, "bucket already exists", Nil)
    ELSE Result([st EXCEPT !.buckets = MapPut(@, input.Bucket, <<>>)], NilErr,
                [Location |-> <<"/">> \o input.Bucket])

\* the output is the pointer stored under the key
GetObject(st, input) ==
    IF input.Bucket \notin DOMAIN st.buckets THEN Result(st, "no bucket", Nil)
    ELSE IF input.Key \notin DOMAIN st.buckets[input.Bucket] THEN Result(st, "no item", Nil)
    ELSE Result(st, NilErr, st.buckets[input.Bucket][input.Key])

PutObject(st, input) ==
    IF input.Bucket \notin DOMAIN st.buckets THEN Result(st, "no bucket", Nil)
    ELSE LET object == [Data                    |-> input.Data,
                        MD5                     |-> MD5Sum(input.Data),
                        ContentType             |-> input.ContentType,
                        Tagging                 |-> input.Tagging,
                        ServerSideEncryption    |-> input.ServerSideEncryption,
                        SSECustomerAlgorithm    |-> input.SSECustomerAlgorithm,
                        SSECustomerKey          |-> input.SSECustomerKey,
                        SSEKMSKeyId             |-> input.SSEKMSKeyId,
                        SSEKMSEncryptionContext |-> ""]
             new    == Alloc(st, object)
         IN  Result([new.st EXCEPT !.buckets[input.Bucket] = MapPut(@, input.Key, new.addr)],
                    NilErr,
                    [Etag                    |-> HexEncode(object.MD5),
                     SSECustomerAlgorithm    |-> input.SSECustomerAlgorithm,
                     SSEKMSKeyId             |-> input.SSEKMSKeyId,
                     SSEKMSEncryptionContext |-> input.SSEKMSEncryptionContext])

\* the source object after the REPLACE directives of the input
CopyDirectives(object, input) ==
    LET meta == IF input.MetadataDirective = "REPLACE"
                THEN [object EXCEPT !.ContentType = input.ContentType,
                                    !.ServerSideEncryption = input.ServerSideEncryption,
                                    !.SSEKMSKeyId = input.SSEKMSKeyId,
                                    !.SSECustomerAlgorithm = input.SSECustomerAlgorithm,
                                    !.SSECustomerKey = input.SSECustomerKey]
                ELSE object
    IN  IF input.TaggingDirective = "REPLACE"
        THEN [meta EXCEPT !.Tagging = input.Tagging]
        ELSE meta

\* err "panic" is the run-time panic of an index out of range; the deferred
\* Unlock runs as the panic unwinds
CopyObject(st, input) ==
    LET copySource == PathUnescape(input.CopySource)
        parts      == SplitN(copySource.s, "/", 3)
    IN  IF copySource.err THEN Result(st, "invalid URL escape", Nil)
        ELSE IF Len(parts) < 3 THEN Result(st, "panic", Nil)
        ELSE LET sourceBucket == parts[2]
                 sourceKey    == parts[3]
             IN  IF sourceBucket \notin DOMAIN st.buckets THEN Result(st, "no bucket", Nil)
                 ELSE IF sourceKey \notin DOMAIN st.buckets[sourceBucket]
                 THEN Result(st, "no source item", Nil)
                 ELSE LET object == st.buckets[sourceBucket][sourceKey]
                          st1    == [st EXCEPT !.heap[object] = CopyDirectives(@, input)]
                      IN  IF input.Bucket \notin DOMAIN st1.buckets
                          THEN Result(st1, "no bucket", Nil)
                          ELSE Result([st1 EXCEPT !.buckets[input.Bucket] =
                                                      MapPut(@, input.Key, object)],
                                      NilErr,
                                      [ETag |-> HexEncode(st1.heap[object].MD5)])

DeleteObject(st, input) ==
    IF input.Bucket \notin DOMAIN st.buckets THEN Result(st, "no bucket", Nil)
    ELSE IF input.Key \notin DOMAIN st.buckets[input.Bucket] THEN Result(st, "no item", Nil)
    ELSE Result([st EXCEPT !.buckets[input.Bucket] = MapDelete(@, input.Key)], NilErr, Nil)

\* the loop of GetObjectTagging over the pieces of the tagging: the tags, or
\* the error of the first piece that is not key=value
RECURSIVE ParseTags(_)
ParseTags(pieces) ==
    IF pieces = <<>> THEN [err |-> NilErr, tags |-> <<>>]
    ELSE LET kv   == Split(Head(pieces), "=")
             rest == ParseTags(Tail(pieces))
         IN  IF Len(kv) # 2 THEN [err |-> "invalid tagging", tags |-> <<>>]
             ELSE IF rest.err # NilErr THEN rest
             ELSE [err |-> NilErr, tags |-> <<[Key |-> kv[1], Value |-> kv[2]]>> \o rest.tags]

GetObjectTagging(st, input) ==
    IF input.Bucket \notin DOMAIN st.buckets THEN Result(st, "no bucket", Nil)
    ELSE IF input.Key \notin DOMAIN st.buckets[input.Bucket] THEN Result(st, "no item", Nil)
    ELSE LET object == st.heap[st.buckets[input.Bucket][input.Key]]
             parsed == ParseTags(Split(object.Tagging, "&"))
         IN  IF parsed.err # NilErr THEN Result(st, parsed.err, Nil)
             ELSE Result(st, NilErr, [TagSet |-> parsed.tags])

\* the strings.Builder loop of PutObjectTagging
RECURSIVE JoinTags(_)
JoinTags(tags) ==
    IF tags = <<>> THEN <<>>
    ELSE Head(tags).Key \o <<"=">> \o Head(tags).Value
            \o (IF Len(tags) # 1 THEN <<",">> ELSE <<>>) \o JoinTags(Tail(tags))

PutObjectTagging(st, input) ==
    IF input.Bucket \notin DOMAIN st.buckets THEN Result(st, "no bucket", Nil)
    ELSE IF input.Key \notin DOMAIN st.buckets[input.Bucket] THEN Result(st, "no item", Nil)
    ELSE LET object == st.buckets[input.Bucket][input.Key]
         IN  Result([st EXCEPT !.heap[object].Tagging = JoinTags(input.TagSet)], NilErr,
                    [ok |-> TRUE])

DeleteObjectTagging(st, input) ==
    IF input.Bucket \notin DOMAIN st.buckets THEN Result(st, "no bucket", Nil)
    ELSE IF input.Key \notin DOMAIN st.buckets[input.Bucket] THEN Result(st, "no item", Nil)
    ELSE LET object == st.buckets[input.Bucket][input.Key]
         IN  Result([st EXCEPT !.heap[object].Tagging = <<>>], NilErr, [status |-> 204])


\* the upload id of the n-th uuid (base64 of its bytes): one id per uuid
UploadIdOf(n) == n

CreateMultipartUpload(st, input) ==
    IF input.Bucket \notin DOMAIN st.buckets THEN Result(st, "no bucket", Nil)
    ELSE LET uploadId == UploadIdOf(st.uuids + 1)
             upload   == [Bucket |-> input.Bucket,
                          Key    |-> input.Key,
                          Parts  |-> <<>>,
                          Object |-> [Data                    |-> <<>>,
                                      MD5                     |-> ZeroMD5,
                                      ContentType             |-> input.ContentType,
                                      Tagging                 |-> <<>>,
                                      ServerSideEncryption    |-> input.ServerSideEncryption,
                                      SSECustomerAlgorithm    |-> "",
                                      SSECustomerKey          |-> "",
                                      SSEKMSKeyId             |-> input.SSEKMSKeyId,
                                      SSEKMSEncryptionContext |-> input.SSEKMSEncryptionContext]]
         IN  Result([st EXCEPT !.uuids = @ + 1,
                               !.multipartUploads = MapPut(@, uploadId, upload)],
                    NilErr,
                    [Bucket |-> input.Bucket, Key |-> input.Key, UploadId |-> uploadId])

UploadPart(st, input) ==
    IF input.UploadId \notin DOMAIN st.multipartUploads THEN Result(st, "no upload", Nil)
    ELSE LET upload == st.multipartUploads[input.UploadId]
         IN  IF upload.Bucket # input.Bucket \/ upload.Key # input.Key
             THEN Result(st, "wrong upload", Nil)
             ELSE LET part == [Data |-> input.Data, MD5 |-> MD5Sum(input.Data)]
                  IN  Result([st EXCEPT !.multipartUploads[input.UploadId].Parts =
                                            MapPut(@, input.PartNumber, part)],
                             NilErr,
                             [ETag                 |-> HexEncode(part.MD5),
                              ServerSideEncryption |-> upload.Object.ServerSideEncryption,
                              SSEKMSKeyId          |-> upload.Object.SSEKMSKeyId])

\* slices.SortFunc by PartNumber (an insertion sort for a slice this short)
RECURSIVE InsertPart(_, _)
InsertPart(sorted, p) ==
    IF sorted = <<>> THEN <<p>>
    ELSE IF p.PartNumber < Head(sorted).PartNumber THEN <<p>> \o sorted
    ELSE <<Head(sorted)>> \o InsertPart(Tail(sorted), p)

\* (mutant) the part list left in the order of the request
SortPartsSkipped(parts) == parts

RECURSIVE SortParts(_)
SortParts(parts) ==
    IF parts = <<>> THEN <<>>
    ELSE InsertPart(SortParts(SubSeq(parts, 1, Len(parts) - 1)), parts[Len(parts)])

\* the first loop of CompleteMultipartUpload: the error of the first listed part that
\* is missing or whose ETag differs, else the MD5s of the listed parts, concatenated
RECURSIVE CheckParts(_, _)
CheckParts(upload, specs) ==
    IF specs = <<>> THEN [err |-> NilErr, combinedMD5s |-> <<>>]
    ELSE LET partSpec == Head(specs)
         IN  IF partSpec.PartNumber \notin DOMAIN upload.Parts
             THEN [err |-> "missing part", combinedMD5s |-> <<>>]
             ELSE IF partSpec.ETag # HexEncode(upload.Parts[partSpec.PartNumber].MD5)
             THEN [err |-> "wrong part", combinedMD5s |-> <<>>]
             ELSE LET rest == CheckParts(upload, Tail(specs))
                  IN  IF rest.err # NilErr THEN rest
                      ELSE [err |-> NilErr,
                            combinedMD5s |-> upload.Parts[partSpec.PartNumber].MD5
                                                \o rest.combinedMD5s]

\* the second loop: the data of the listed parts, concatenated
RECURSIVE CombineData(_, _)
CombineData(upload, specs) ==
    IF specs = <<>> THEN <<>>
    ELSE upload.Parts[Head(specs).PartNumber].Data \o CombineData(upload, Tail(specs))

\* (mutant) the completed upload is not deleted from the map
CompleteKeepsUpload(st, input) ==
    IF input.UploadId \notin DOMAIN st.multipartUploads THEN Result(st, "no upload", Nil)
    ELSE LET upload == st.multipartUploads[input.UploadId]
             sorted == SortParts(input.Part)
         IN  IF upload.Bucket # input.Bucket \/ upload.Key # input.Key
                \/ CheckParts(upload, sorted).err # NilErr
             THEN Result(st, "wrong upload", Nil)
             ELSE LET new == Alloc(st, [upload.Object EXCEPT
                                           !.Data = CombineData(upload, sorted)])
                  IN  Result([new.st EXCEPT !.buckets[input.Bucket] =
                                                MapPut(@, input.Key, new.addr)],
                             NilErr, Nil)

CompleteMultipartUpload(st, input) ==
    IF input.UploadId \notin DOMAIN st.multipartUploads THEN Result(st, "no upload", Nil)
    ELSE LET upload == st.multipartUploads[input.UploadId]
         IN  IF upload.Bucket # input.Bucket \/ upload.Key # input.Key
             THEN Result(st, "wrong upload", Nil)
             ELSE LET sorted  == SortParts(input.Part)
                      checked == CheckParts(upload, sorted)
                  IN  IF checked.err # NilErr THEN Result(st, checked.err, Nil)
                      ELSE LET object == [upload.Object EXCEPT
                                              !.Data = CombineData(upload, sorted)]
                               new    == Alloc(st, object)
                           IN  Result([new.st EXCEPT
                                          !.buckets[input.Bucket] =
                                              MapPut(@, input.Key, new.addr),
                                          !.multipartUploads = MapDelete(@, input.UploadId)],
                                      NilErr,
                                      [Bucket |-> input.Bucket,
                                       Key    |-> input.Key,
                                       ETag   |-> etag(checked.combinedMD5s) \o <<"-">>
                                                     \o Itoa(Len(input.Part)),
                                       ServerSideEncryption |-> object.ServerSideEncryption,
                                       SSEKMSKeyId          |-> object.SSEKMSKeyId])

AbortMultipartUpload(st, input) ==
    Result([st EXCEPT !.multipartUploads = MapDelete(@, input.UploadId)], NilErr,
           [status |-> 204])

-----------------------------------------------------------------------------
(* The inputs tried *)

ObjectRefs ==
    {r \in [Bucket : BucketNames, Key : Keys] : r.Bucket = <<"m">> \/ r.Key = <<"k">>}

\* metadata of a request: none, or every field given
NoMeta ==
    [ContentType |-> "", ServerSideEncryption |-> "", SSEKMSKeyId |-> "",
     SSECustomerAlgorithm |-> "", SSECustomerKey |-> "", SSEKMSEncryptionContext |-> ""]

FullMeta ==
    [ContentType |-> "text/plain", ServerSideEncryption |-> "aws:kms", SSEKMSKeyId |-> "key-1",
     SSECustomerAlgorithm |-> "AES256", SSECustomerKey |-> "ck", SSEKMSEncryptionContext |-> "ctx"]

Tag(k, v) == [Key |-> <<k>>, Value |-> <<v>>]

\* tag lists of zero, one and two tags
TagSets == {<<>>, <<Tag("a", "1")>>, <<Tag("a", "1"), Tag("b", "2")>>}

\* part data and object data
PartDatas == {<<1>>, <<2>>}

ObjectDatas == {<<>>, <<1>>}

PartNumbers == {1, 2}

UploadIds == {UploadIdOf(n) : n \in 1..MaxUploads}

CopySources ==
    {<<"/", "m", "/", "k">>, <<"/", "n", "/", "j">>, <<"m", "/", "k">>, <<>>, <<"%">>}

CreateBucketInputs == [Bucket : BucketNames]

PutObjectInputs ==
    {r @@ [Data |-> d] @@ m :
        r \in ObjectRefs, d \in ObjectDatas,
        m \in {NoMeta @@ [Tagging |-> <<>>], FullMeta @@ [Tagging |-> <<"a", "=", "1">>]}}

CopyObjectInputs ==
    {r @@ [CopySource |-> src, MetadataDirective |-> md, TaggingDirective |-> td,
           Tagging |-> <<"b", "=", "2">>] @@ FullMeta :
        r \in ObjectRefs, src \in CopySources, md \in {"COPY", "REPLACE"},
        td \in {"COPY", "REPLACE"}}

PutObjectTaggingInputs == {r @@ [TagSet |-> t] : r \in ObjectRefs, t \in TagSets}

CreateMultipartUploadInputs == {r @@ m : r \in ObjectRefs, m \in {NoMeta, FullMeta}}

UploadPartInputs ==
    {r @@ [UploadId |-> u, PartNumber |-> n, Data |-> d] :
        r \in ObjectRefs, u \in UploadIds, n \in PartNumbers, d \in PartDatas}

APIParts == [PartNumber : PartNumbers, ETag : {etag(d) : d \in PartDatas}]

PartLists ==
    {<<>>} \cup {<<p>> : p \in APIParts}
           \cup {l \in {<<p, q>> : p \in APIParts, q \in APIParts} :
                    l[1].PartNumber # l[2].PartNumber}

CompleteMultipartUploadInputs ==
    {r @@ [UploadId |-> u, Part |-> l] : r \in ObjectRefs, u \in UploadIds, l \in PartLists}

AbortMultipartUploadInputs == {r @@ [UploadId |-> u] : r \in ObjectRefs, u \in UploadIds}


-----------------------------------------------------------------------------
(* The store called by one caller at a time: every call runs from its Lock to
   its deferred Unlock without another call in between *)

\* the caller of the sequential specification
Caller == 1

\* main() as it stays while the store is exercised
MainIdle ==
    /\ mainPc = "kinesis"
    /\ enableKinesis = TRUE
    /\ enableKMS = TRUE
    /\ kinesisInitialStreams = <<>>
    /\ kinesisInitialShardsPerStream = 2
    /\ createStreamCalls = <<>>
    /\ methodRegistry = <<>>
    /\ request = NoRequest
    /\ response = NewResponse
    /\ invocations = <<>>

Init == MainIdle /\ InitS3

\* the pointers the callers hold
HeldPointers(h) == {h[p].ptr : p \in Procs} \ {Nil}

\* the store becomes what the call left, less the Objects nothing points to; the
\* call is counted against MaxCalls when counted is set
Commit(r, newHeld, counted) ==
    LET st == Collect(r.st, HeldPointers(newHeld))
    IN  /\ buckets' = st.buckets
        /\ heap' = st.heap
        /\ multipartUploads' = st.multipartUploads
        /\ uuids' = st.uuids
        /\ held' = newHeld
        /\ budget' = IF counted THEN budget - 1 ELSE budget
        /\ UNCHANGED <<mainVars, concVars, history>>

\* what the caller of GetObject holds once the call has returned r
Holding(h, p, r) ==
    IF r.err = NilErr THEN [h EXCEPT ![p] = [ptr |-> r.out, seen |-> r.st.heap[r.out]]]
    ELSE h

\* the bucket names bound the calls that create a bucket: they are not counted
CreateBucketCall ==
    /\ Cardinality(DOMAIN buckets) <= Cardinality(BucketNames)
    /\ \E input \in CreateBucketInputs : Commit(CreateBucket(Store, input), held, FALSE)

GetObjectCall ==
    /\ budget > 0
    /\ \E input \in ObjectRefs :
          LET r == GetObject(Store, input) IN Commit(r, Holding(held, Caller, r), TRUE)

PutObjectCall ==
    /\ budget > 0
    /\ \E input \in PutObjectInputs : Commit(PutObject(Store, input), held, TRUE)

CopyObjectCall ==
    /\ budget > 0
    /\ \E input \in CopyObjectInputs : Commit(CopyObject(Store, input), held, TRUE)

DeleteObjectCall ==
    /\ budget > 0
    /\ \E input \in ObjectRefs : Commit(DeleteObject(Store, input), held, TRUE)

GetObjectTaggingCall ==
    /\ budget > 0
    /\ \E input \in ObjectRefs : Commit(GetObjectTagging(Store, input), held, TRUE)

PutObjectTaggingCall ==
    /\ budget > 0
    /\ \E input \in PutObjectTaggingInputs : Commit(PutObjectTagging(Store, input), held, TRUE)

DeleteObjectTaggingCall ==
    /\ budget > 0
    /\ \E input \in ObjectRefs : Commit(DeleteObjectTagging(Store, input), held, TRUE)

CreateMultipartUploadCall ==
    /\ budget > 0
    /\ uuids < MaxUploads
    /\ \E input \in CreateMultipartUploadInputs :
          Commit(CreateMultipartUpload(Store, input), held, TRUE)

UploadPartCall ==
    /\ budget > 0
    /\ \E input \in UploadPartInputs : Commit(UploadPart(Store, input), held, TRUE)

CompleteMultipartUploadCall ==
    /\ budget > 0
    /\ \E input \in CompleteMultipartUploadInputs :
          Commit(CompleteMultipartUpload(Store, input), held, TRUE)

AbortMultipartUploadCall ==
    /\ budget > 0
    /\ \E input \in AbortMultipartUploadInputs :
          Commit(AbortMultipartUpload(Store, input), held, TRUE)

Next ==
    \/ CreateBucketCall
    \/ GetObjectCall
    \/ PutObjectCall
    \/ CopyObjectCall
    \/ DeleteObjectCall
    \/ GetObjectTaggingCall
    \/ PutObjectTaggingCall
    \/ DeleteObjectTaggingCall
    \/ CreateMultipartUploadCall
    \/ UploadPartCall
    \/ CompleteMultipartUploadCall
    \/ AbortMultipartUploadCall

Spec == Init /\ [][Next]_vars


-----------------------------------------------------------------------------
(* Properties of the store *)

\* the upload ids CreateMultipartUpload has returned so far
Generated == {UploadIdOf(n) : n \in 1..uuids}

\* the step is a call that returned r
Ran(r) ==
    /\ budget' = budget - 1
    /\ multipartUploads' = r.st.multipartUploads
    /\ [buckets |-> buckets', heap |-> heap', multipartUploads |-> multipartUploads',
        uuids |-> uuids'] = Collect(r.st, HeldPointers(held'))

\* the step is a successful CompleteMultipartUpload naming id
Completes(id) ==
    \E input \in CompleteMultipartUploadInputs :
        /\ input.UploadId = id
        /\ CompleteMultipartUpload(Store, input).err = NilErr
        /\ Ran(CompleteMultipartUpload(Store, input))

\* the step is an AbortMultipartUpload naming id
Aborts(id) ==
    \E input \in AbortMultipartUploadInputs :
        /\ input.UploadId = id
        /\ Ran(AbortMultipartUpload(Store, input))

\* a call naming an upload id that is gone fails with "no upload" and changes nothing
GoneUploadsRejected ==
    \A id \in Generated \ DOMAIN multipartUploads :
        /\ \A input \in UploadPartInputs :
              input.UploadId = id => UploadPart(Store, input) = Result(Store, "no upload", Nil)
        /\ \A input \in CompleteMultipartUploadInputs :
              input.UploadId = id
                  => CompleteMultipartUpload(Store, input) = Result(Store, "no upload", Nil)

\* a successful CompleteMultipartUpload and any AbortMultipartUpload leave the
\* store without the upload id they name
CompleteAndAbortRemove ==
    \A id \in DOMAIN multipartUploads :
        /\ \A input \in CompleteMultipartUploadInputs :
              (input.UploadId = id /\ CompleteMultipartUpload(Store, input).err = NilErr)
                  => id \notin DOMAIN CompleteMultipartUpload(Store, input).st.multipartUploads
        /\ \A input \in AbortMultipartUploadInputs :
              input.UploadId = id
                  => id \notin DOMAIN AbortMultipartUpload(Store, input).st.multipartUploads

\* C4: an upload id is in the store from the CreateMultipartUpload that returned
\* it until the first successful CompleteMultipartUpload or the first
\* AbortMultipartUpload naming it, never again afterwards, and every later
\* UploadPart or CompleteMultipartUpload naming it fails with "no upload" and
\* changes nothing
C4_UploadLivesFromCreateToCompleteOrAbort ==
    /\ [](GoneUploadsRejected /\ CompleteAndAbortRemove)
    /\ [][\A id \in UploadIds :
            /\ (uuids' = uuids + 1 /\ id = UploadIdOf(uuids')) => id \in DOMAIN multipartUploads'
            /\ (id \notin DOMAIN multipartUploads /\ id \in DOMAIN multipartUploads')
                   => (uuids' = uuids + 1 /\ id = UploadIdOf(uuids'))
            /\ (id \in Generated /\ id \notin DOMAIN multipartUploads)
                   => id \notin DOMAIN multipartUploads'
            /\ (id \in DOMAIN multipartUploads /\ id \notin DOMAIN multipartUploads')
                   => (Completes(id) \/ Aborts(id))
       ]_vars

\* an upload was completed: its object is stored and its id is gone
C4_Witness ==
    /\ UploadIdOf(1) \in Generated \ DOMAIN multipartUploads
    /\ \E a \in DOMAIN heap : heap[a].Data = <<2>> /\ heap[a].MD5 = ZeroMD5

\* C5: the Object a GetObject returned stays as it was when the call returned,
\* whatever is called afterwards
C5_ReturnedObjectIsSnapshot ==
    \A p \in Procs : held[p].ptr # Nil => heap[held[p].ptr] = held[p].seen


-----------------------------------------------------------------------------
(* The store called by concurrent goroutines.  Every operation begins with
   s.mu.Lock() and defers s.mu.Unlock(); between the two it first reads the
   maps and computes, then writes.  The input of a call is drawn when the call
   gets the mutex: nothing looks at it before. *)

\* the call op(input) on store st
Apply(c, st) ==
    CASE c.op = "CreateBucket"            -> CreateBucket(st, c.input)
      [] c.op = "GetObject"               -> GetObject(st, c.input)
      [] c.op = "PutObject"               -> PutObject(st, c.input)
      [] c.op = "CopyObject"              -> CopyObject(st, c.input)
      [] c.op = "DeleteObject"            -> DeleteObject(st, c.input)
      [] c.op = "GetObjectTagging"        -> GetObjectTagging(st, c.input)
      [] c.op = "PutObjectTagging"        -> PutObjectTagging(st, c.input)
      [] c.op = "DeleteObjectTagging"     -> DeleteObjectTagging(st, c.input)
      [] c.op = "CreateMultipartUpload"   -> CreateMultipartUpload(st, c.input)
      [] c.op = "UploadPart"              -> UploadPart(st, c.input)
      [] c.op = "CompleteMultipartUpload" -> CompleteMultipartUpload(st, c.input)
      [] c.op = "AbortMultipartUpload"    -> AbortMultipartUpload(st, c.input)

CallsOf(op, inputs) == {[op |-> op, input |-> i] : i \in inputs}

\* the calls the concurrent callers make: every operation, on bucket m
ConcCalls ==
    LET m(inputs) == {i \in inputs : i.Bucket = <<"m">>}
        k(inputs) == {i \in m(inputs) : i.Key = <<"k">>}
    IN  CallsOf("CreateBucket", m(CreateBucketInputs))
        \cup CallsOf("GetObject", m(ObjectRefs))
        \cup CallsOf("PutObject", {i \in k(PutObjectInputs) : i.Data = <<1>>})
        \cup CallsOf("CopyObject",
                     {i \in m(CopyObjectInputs) :
                         /\ i.Key = <<"j">>
                         /\ i.CopySource \in {<<"/", "m", "/", "k">>, <<>>}
                         /\ i.MetadataDirective = i.TaggingDirective})
        \cup CallsOf("DeleteObject", k(ObjectRefs))
        \cup CallsOf("GetObjectTagging", k(ObjectRefs))
        \cup CallsOf("PutObjectTagging", {i \in m(PutObjectTaggingInputs) : Len(i.TagSet) = 2})
        \cup CallsOf("DeleteObjectTagging", k(ObjectRefs))
        \cup CallsOf("CreateMultipartUpload",
                     {i \in k(CreateMultipartUploadInputs) : i.ContentType = ""})
        \cup CallsOf("UploadPart", {i \in m(UploadPartInputs) : i.UploadId = UploadIdOf(1)})
        \cup CallsOf("CompleteMultipartUpload",
                     {i \in k(CompleteMultipartUploadInputs) :
                         i.UploadId = UploadIdOf(1) /\ Len(i.Part) = 1})
        \cup CallsOf("AbortMultipartUpload",
                     {i \in k(AbortMultipartUploadInputs) : i.UploadId = UploadIdOf(1)})

\* (mutant) Lock that does not wait
UnlockedAlways(m) == TRUE

\* sync.Mutex: Lock returns only when the mutex is unlocked
Unlocked(m) == m = 0

\* (mutant) Unlock at the successful return only, not deferred
UnlockOnSuccess(m, err) == IF err = NilErr THEN 0 ELSE m

\* defer s.mu.Unlock(): the mutex is unlocked however the call ends
DeferredUnlock(m, err) == 0

\* the store just built, every goroutine outside the store
InitConc == Init

\* the operation is entered: the goroutine is at s.mu.Lock()
Start(p) ==
    /\ pcS3[p] = "idle"
    /\ budget > 0
    /\ budget' = budget - 1
    /\ pcS3' = [pcS3 EXCEPT ![p] = "lock"]
    /\ UNCHANGED <<mainVars, storeVars, held, mu, call, pending, returned, serial, history>>

\* s.mu.Lock() returns
Lock(p) ==
    /\ pcS3[p] = "lock"
    /\ Unlocked(mu)
    /\ mu' = p
    /\ \E c \in ConcCalls :
          /\ c.op = "CreateMultipartUpload" => serial.st.uuids < MaxUploads
          /\ call' = [call EXCEPT ![p] = c]
          /\ LET r == Apply(c, serial.st)
                 h == IF c.op = "GetObject" THEN Holding(held, p, r) ELSE held
             IN  serial' = [st  |-> Collect(r.st, HeldPointers(h)),
                            err |-> [serial.err EXCEPT ![p] = r.err]]
    /\ pcS3' = [pcS3 EXCEPT ![p] = "read"]
    /\ UNCHANGED <<mainVars, storeVars, held, pending, returned, budget, history>>

\* the reads of the body: the maps are looked up and the outcome computed
Read(p) ==
    /\ pcS3[p] = "read"
    /\ pending' = [pending EXCEPT ![p] = Apply(call[p], Store)]
    /\ pcS3' = [pcS3 EXCEPT ![p] = "write"]
    /\ UNCHANGED <<mainVars, storeVars, held, mu, call, returned, serial, budget, history>>

\* the writes of the body, and the result handed to the return statement
Write(p) ==
    /\ pcS3[p] = "write"
    /\ LET r  == pending[p]
           h  == IF call[p].op = "GetObject" THEN Holding(held, p, r) ELSE held
           st == Collect(r.st, HeldPointers(h))
       IN  /\ buckets' = st.buckets
           /\ heap' = st.heap
           /\ multipartUploads' = st.multipartUploads
           /\ uuids' = st.uuids
           /\ held' = h
           /\ returned' = [returned EXCEPT ![p] = r.err]
    /\ pending' = [pending EXCEPT ![p] = <<>>]
    /\ pcS3' = [pcS3 EXCEPT ![p] = "unlock"]
    /\ UNCHANGED <<mainVars, mu, call, serial, budget, history>>

\* the call ends (by return or by panic) and the deferred Unlock runs
Unlock(p) ==
    /\ pcS3[p] = "unlock"
    /\ mu' = DeferredUnlock(mu, returned[p])
    /\ pcS3' = [pcS3 EXCEPT ![p] = "idle"]
    /\ call' = [call EXCEPT ![p] = NoCall]
    /\ UNCHANGED <<mainVars, storeVars, held, pending, returned, serial, budget, history>>

NextConc ==
    \/ \E p \in Procs : Start(p)
    \/ \E p \in Procs : Lock(p)
    \/ \E p \in Procs : Read(p)
    \/ \E p \in Procs : Write(p)
    \/ \E p \in Procs : Unlock(p)

SpecConc == InitConc /\ [][NextConc]_vars

\* Go's scheduler runs every runnable goroutine, and sync.Mutex hands the lock
\* to a goroutine that keeps waiting for it (starvation mode)
FairConc ==
    /\ SpecConc
    /\ \A p \in Procs :
          /\ SF_vars(Lock(p))
          /\ WF_vars(Read(p))
          /\ WF_vars(Write(p))
          /\ WF_vars(Unlock(p))


-----------------------------------------------------------------------------
(* Properties of the concurrent store *)

\* the goroutines between their Lock and their Unlock
InCritical == {p \in Procs : pcS3[p] \in {"read", "write", "unlock"}}

\* C6: the maps are read and written only by the goroutine holding the mutex,
\* at most one call is in its critical section, and the store and the results
\* are those of the calls run one after the other in the order of their Lock
C6_MutexSerializesOperations ==
    /\ Cardinality(InCritical) <= 1
    /\ \A p \in InCritical : mu = p
    /\ \A p \in Procs : pcS3[p] \in {"idle", "lock", "unlock"} => returned[p] = serial.err[p]
    /\ (\A p \in Procs : pcS3[p] \in {"idle", "lock", "unlock"}) => Store = serial.st

\* one goroutine is about to write the object it puts while the other waits for
\* the mutex
C6_Witness ==
    /\ pcS3[1] = "write"
    /\ call[1].op = "PutObject"
    /\ pending[1].err = NilErr
    /\ pcS3[2] = "lock"
    /\ mu = 1

\* C10: under fair scheduling every call that started returns, the mutex is not
\* held by a goroutine that is outside the store, and is free once all are
C10_EveryCallReturnsAndUnlocks ==
    /\ \A p \in Procs : (pcS3[p] # "idle") ~> (pcS3[p] = "idle")
    /\ [](\A p \in Procs : pcS3[p] = "idle" => mu # p)
    /\ []((\A p \in Procs : pcS3[p] = "idle") => mu = 0)

\* a call that panicked and calls that failed and succeeded have all returned, and
\* the mutex is free
C10_Witness ==
    /\ \A p \in Procs : pcS3[p] = "idle"
    /\ mu = 0
    /\ returned[1] = "panic"
    /\ returned[2] = "no upload"
    /\ DOMAIN buckets # {}

\* the CopySource has the form /<bucket>/<key>
WellFormedSource(src) ==
    /\ ~PathUnescape(src).err
    /\ LET parts == SplitN(PathUnescape(src).s, "/", 3)
       IN  Len(parts) = 3 /\ parts[1] = <<>> /\ parts[2] # <<>> /\ parts[3] # <<>>

\* C11: a CopyObject whose CopySource is not of the form /<bucket>/<key> ends
\* with an error value, never with a panic and never with success; one whose
\* CopySource is /<bucket>/<key> and that succeeds has stored under its
\* destination the object stored under exactly that bucket and key
C11_CopyObjectRejectsMalformedSource ==
    \A p \in Procs :
        (pcS3[p] = "unlock" /\ call[p].op = "CopyObject") =>
            LET input == call[p].input
            IN  IF WellFormedSource(input.CopySource)
                THEN LET parts == SplitN(PathUnescape(input.CopySource).s, "/", 3)
                     IN  /\ returned[p] # "panic"
                         /\ returned[p] = NilErr =>
                               /\ parts[2] \in DOMAIN buckets
                               /\ parts[3] \in DOMAIN buckets[parts[2]]
                               /\ buckets[input.Bucket][input.Key] = buckets[parts[2]][parts[3]]
                ELSE returned[p] \notin {"panic", NilErr}

-----------------------------------------------------------------------------
(* Further properties of the store called by one caller at a time: what each
   operation, called in a reachable state, returns and leaves *)

\* GetObjectTagging succeeds on store st for the object r names and returns tags
TaggingIs(st, r, tags) ==
    LET got == GetObjectTagging(st, [Bucket |-> r.Bucket, Key |-> r.Key])
    IN  got.err = NilErr /\ got.out = [TagSet |-> tags]

\* C12: after a successful PutObjectTagging of the tag list T, GetObjectTagging of
\* the same bucket and key succeeds and returns the tags of T in order; after a
\* PutObject without tags, and after a successful DeleteObjectTagging,
\* GetObjectTagging succeeds with an empty tag set
C12_TaggingRoundTrip ==
    /\ \A input \in PutObjectTaggingInputs :
          LET put == PutObjectTagging(Store, input)
          IN  put.err = NilErr => TaggingIs(put.st, input, input.TagSet)
    /\ \A input \in PutObjectInputs :
          LET put == PutObject(Store, input)
          IN  (put.err = NilErr /\ input.Tagging = <<>>) => TaggingIs(put.st, input, <<>>)
    /\ \A input \in ObjectRefs :
          LET del == DeleteObjectTagging(Store, input)
          IN  del.err = NilErr => TaggingIs(del.st, input, <<>>)

\* every (bucket, key) a request can name
AllRefs == [Bucket : BucketNames, Key : Keys]

\* the Object stored in st under the bucket and key of r: a set of one Object,
\* or the empty set when the bucket or the key is not there
ObjectAt(st, r) ==
    IF r.Bucket \in DOMAIN st.buckets /\ r.Key \in DOMAIN st.buckets[r.Bucket]
    THEN {st.heap[st.buckets[r.Bucket][r.Key]]}
    ELSE {}

\* the call that returned res left every object but the one input targets as it was
OthersUnchanged(input, res) ==
    \A other \in AllRefs :
        other # [Bucket |-> input.Bucket, Key |-> input.Key]
            => ObjectAt(res.st, other) = ObjectAt(Store, other)

\* C13: CopyObject, PutObjectTagging and DeleteObjectTagging change no field of
\* an object stored under a bucket and key other than the one they target: not
\* of the source of a CopyObject, and not of the other key after a CopyObject
\* from one key to another
C13_OnlyTargetObjectChanges ==
    /\ \A input \in CopyObjectInputs : OthersUnchanged(input, CopyObject(Store, input))
    /\ \A input \in PutObjectTaggingInputs :
          OthersUnchanged(input, PutObjectTagging(Store, input))
    /\ \A input \in ObjectRefs : OthersUnchanged(input, DeleteObjectTagging(Store, input))

\* every call a caller can make: every operation with every input tried
AllCalls ==
    CallsOf("CreateBucket", CreateBucketInputs)
        \cup CallsOf("GetObject", ObjectRefs)
        \cup CallsOf("PutObject", PutObjectInputs)
        \cup CallsOf("CopyObject", CopyObjectInputs)
        \cup CallsOf("DeleteObject", ObjectRefs)
        \cup CallsOf("GetObjectTagging", ObjectRefs)
        \cup CallsOf("PutObjectTagging", PutObjectTaggingInputs)
        \cup CallsOf("DeleteObjectTagging", ObjectRefs)
        \cup CallsOf("CreateMultipartUpload", CreateMultipartUploadInputs)
        \cup CallsOf("UploadPart", UploadPartInputs)
        \cup CallsOf("CompleteMultipartUpload", CompleteMultipartUploadInputs)
        \cup CallsOf("AbortMultipartUpload", AbortMultipartUploadInputs)

\* C14: a call that returns an error leaves the buckets, every stored object
\* and every pending multipart upload as they were before the call
C14_ErrorsLeaveStoreUnchanged ==
    \A c \in AllCalls : Apply(c, Store).err # NilErr => Apply(c, Store).st = Store

-----------------------------------------------------------------------------
(* Multipart uploads followed from their creation: the store called by one
   caller at a time with the multipart operations, the calls that succeeded
   kept in history *)

\* the multipart calls made: on bucket m, creating uploads for key k and naming
\* key k or key j afterwards
MultipartCalls ==
    LET m(inputs) == {i \in inputs : i.Bucket = <<"m">>}
        k(inputs) == {i \in m(inputs) : i.Key = <<"k">>}
    IN  CallsOf("CreateMultipartUpload", k(CreateMultipartUploadInputs))
        \cup CallsOf("UploadPart", m(UploadPartInputs))
        \cup CallsOf("CompleteMultipartUpload", m(CompleteMultipartUploadInputs))
        \cup CallsOf("AbortMultipartUpload", k(AbortMultipartUploadInputs))

\* the call c runs from its Lock to its deferred Unlock; history records it when
\* it succeeds
Logged(c) ==
    LET r  == Apply(c, Store)
        st == Collect(r.st, HeldPointers(held))
    IN  /\ buckets' = st.buckets
        /\ heap' = st.heap
        /\ multipartUploads' = st.multipartUploads
        /\ uuids' = st.uuids
        /\ history' = IF r.err = NilErr THEN Append(history, [call |-> c, out |-> r.out])
                      ELSE history
        /\ UNCHANGED <<mainVars, held, concVars, budget>>

CreateMultipartUploadLogged ==
    /\ Len(history) < MaxUploadCalls
    /\ uuids < MaxUploads
    /\ \E c \in MultipartCalls : c.op = "CreateMultipartUpload" /\ Logged(c)

UploadPartLogged ==
    /\ Len(history) < MaxUploadCalls
    /\ \E c \in MultipartCalls : c.op = "UploadPart" /\ Logged(c)

CompleteMultipartUploadLogged ==
    /\ Len(history) < MaxUploadCalls
    /\ \E c \in MultipartCalls : c.op = "CompleteMultipartUpload" /\ Logged(c)

AbortMultipartUploadLogged ==
    /\ Len(history) < MaxUploadCalls
    /\ \E c \in MultipartCalls : c.op = "AbortMultipartUpload" /\ Logged(c)

NextMultipart ==
    \/ CreateBucketCall
    \/ CreateMultipartUploadLogged
    \/ UploadPartLogged
    \/ CompleteMultipartUploadLogged
    \/ AbortMultipartUploadLogged

InitMultipart == Init

SpecMultipart == InitMultipart /\ [][NextMultipart]_vars

\* the input of the CreateMultipartUpload that returned the upload id
RECURSIVE CreatedWith(_, _)
CreatedWith(log, id) ==
    IF Head(log).call.op = "CreateMultipartUpload" /\ Head(log).out.UploadId = id
    THEN Head(log).call.input
    ELSE CreatedWith(Tail(log), id)

\* the data of the last UploadPart in log for part n of the upload id; nothing
\* when there is none
RECURSIVE LastUploaded(_, _, _)
LastUploaded(log, id, n) ==
    IF log = <<>> THEN <<>>
    ELSE LET e == log[Len(log)]
         IN  IF /\ e.call.op = "UploadPart"
                /\ e.call.input.UploadId = id
                /\ e.call.input.PartNumber = n
             THEN e.call.input.Data
             ELSE LastUploaded(SubSeq(log, 1, Len(log) - 1), id, n)

\* the part numbers a CompleteMultipartUpload request names
Named(input) == {input.Part[i].PartNumber : i \in DOMAIN input.Part}

\* the data last uploaded for the parts in named, from part number n upwards
RECURSIVE Ascending(_, _, _, _)
Ascending(log, id, named, n) ==
    IF \A x \in named : x < n THEN <<>>
    ELSE (IF n \in named THEN LastUploaded(log, id, n) ELSE <<>>)
            \o Ascending(log, id, named, n + 1)

\* the last call recorded is a CompleteMultipartUpload
JustCompleted ==
    history # <<>> /\ history[Len(history)].call.op = "CompleteMultipartUpload"

-----------------------------------------------------------------------------
(* Digests of the stored objects *)

\* C16: every object stored under a key of a bucket has as MD5 the digest of its
\* Data, and the ETag a successful CopyObject reports is the digest, in
\* hexadecimal, of the data of the object it stored
C16_StoredMD5IsDigestOfData ==
    /\ \A r \in AllRefs : \A object \in ObjectAt(Store, r) : object.MD5 = MD5Sum(object.Data)
    /\ \A input \in CopyObjectInputs :
          LET copy == CopyObject(Store, input)
          IN  copy.err = NilErr =>
                  \A object \in ObjectAt(copy.st, input) : copy.out.ETag = etag(object.Data)

-----------------------------------------------------------------------------
(* Multipart calls that name the upload of another bucket or key *)

\* the request names an upload in the store, with a bucket or a key other than
\* the ones the upload was created with
Mismatching(input) ==
    /\ input.UploadId \in DOMAIN multipartUploads
    /\ \/ input.Bucket # multipartUploads[input.UploadId].Bucket
       \/ input.Key # multipartUploads[input.UploadId].Key

\* C17: UploadPart, CompleteMultipartUpload and AbortMultipartUpload called
\* with an upload id and a bucket or key that are not those of the upload leave
\* the upload in the store, as it was
C17_MismatchingCallsLeaveUpload ==
    /\ \A input \in UploadPartInputs :
          Mismatching(input) => UploadPart(Store, input).st.multipartUploads = multipartUploads
    /\ \A input \in CompleteMultipartUploadInputs :
          Mismatching(input)
              => CompleteMultipartUpload(Store, input).st.multipartUploads = multipartUploads
    /\ \A input \in AbortMultipartUploadInputs :
          Mismatching(input)
              => AbortMultipartUpload(Store, input).st.multipartUploads = multipartUploads

====
